---- MODULE Spec2Model ----
(***************************************************************************)
(* The connection detail page of config-ui                                 *)
(* (src/config-ui/src/routes/connection/connection.tsx): the dialog        *)
(* controller, the delete-connection, clear/delete-data-scope and          *)
(* associate-scope-config operations, and the requests they have in        *)
(* flight.  The REST server is the environment: it answers every request   *)
(* with a success or with one of a small set of rejections.  The list      *)
(* loader (useRefreshData), pagination and the scopeConfigId pre-selection *)
(* only feed rendering and are left out, and so is the createDataScope     *)
(* dialog, whose form is an external component; `version` is kept because  *)
(* the operations bump it.                                                 *)
(***************************************************************************)
EXTENDS Integers, Sequences, FiniteSets, TLC

\* ---------------------------------------------------------------- bounds
\* Delete / clear confirmations (removeConnection and scope.remove requests)
\* started over the page's lifetime.
MaxRemoves == 2
\* Scope-config submissions started over the page's lifetime.
MaxAssociates == 1
\* Data scopes listed in the table; their ids are 1..NumScopes.
NumScopes == 2

\* ------------------------------------------------------------- constants
\* useState<ID>() : scopeId starts undefined, which `!scopeId` treats as unset.
NoScope == 0
\* useState(1)
InitVersion == 1
\* `status === 409`
Conflict409 == 409
PagePath == "/connections/:plugin/:id"
ListPath == "/connections"

MsgDeleteConnection == "Delete Connection Successful."
MsgClear == "Clear historical data successful."
MsgDeleteScope == "Delete Data Scope successful."
MsgFailed == "Operation failed."
MsgAssociate == "Associate scope config successful."
NoToast == ""
TipsAssociate == "Scope Config(s) have been updated."

DialogTypes ==
  { "none", "deleteConnection", "createDataScope", "clearDataScope",
    "deleteDataScope", "associateScopeConfig", "deleteConnectionFailed",
    "deleteDataScopeFailed" }

ScopeIdSet == 1 .. NumScopes

\* ----------------------------------------------------------- ID values
\* type ID = string | number.  A string is a sequence of characters.
StrId(s) == [t |-> "str", s |-> s, n |-> 0]
NumId(n) == [t |-> "num", s |-> <<>>, n |-> n]
NoneId == StrId(<<"N", "o", "n", "e">>)

\* What the scope-config form submits here: the sentinel, or the id of a
\* scope config as a decimal string.
TrIds == { NoneId, StrId(<<"1", "2">>) }

DigitVal ==
  [c \in {"0", "1", "2", "3", "4", "5", "6", "7", "8", "9"} |->
     CASE c = "0" -> 0 [] c = "1" -> 1 [] c = "2" -> 2 [] c = "3" -> 3
       [] c = "4" -> 4 [] c = "5" -> 5 [] c = "6" -> 6 [] c = "7" -> 7
       [] c = "8" -> 8 [] c = "9" -> 9]

RECURSIVE DecimalValue(_)
DecimalValue(s) ==
  IF s = <<>> THEN 0
  ELSE 10 * DecimalValue(SubSeq(s, 1, Len(s) - 1)) + DigitVal[s[Len(s)]]

\* unary plus: `+trId`
ToNumber(id) == IF id.t = "num" THEN id.n ELSE DecimalValue(id.s)

\* scopeConfigId as written to the server: <<>> is null, <<n>> the number n.
Null == <<>>

\* `trId !== 'None' ? +trId : null`
ScopeConfigIdOf(trId) == IF trId # NoneId THEN <<ToNumber(trId)>> ELSE Null

\* Mutant of AssociateBody: the fetched scope is not spread into the body.
AssociateBody_NoSpread(scope, trId) ==
  [scopeConfigId |-> ScopeConfigIdOf(trId)]

\* `{ ...scope, scopeConfigId: ... }`
AssociateBody(scope, trId) ==
  [scope EXCEPT !.scopeConfigId = ScopeConfigIdOf(trId)]

\* ------------------------------------------------------------ rejections
\* The `data` of a rejection: absent, {projects, blueprints}, or an object
\* without those two lists.
NoData == [kind |-> "none", projects |-> <<>>, blueprints |-> <<>>]
BadData == [kind |-> "bad", projects |-> <<>>, blueprints |-> <<>>]
Payload(p, b) == [kind |-> "ok", projects |-> p, blueprints |-> b]

\* A rejection.  For removeConnection it is the unwrapped error
\* {status, data, message}; for scope.remove it is the request error, whose
\* `response` (when there is one) holds status and data {message, data}.
Rej(r, st, d, m) == [response |-> r, status |-> st, data |-> d, message |-> m]

Rejections ==
  { Rej(TRUE, Conflict409, Payload(<<"P1">>, <<"B1">>), "in use"),
    Rej(TRUE, Conflict409, NoData, "blocked"),
    Rej(TRUE, Conflict409, BadData, "in use"),
    Rej(TRUE, 500, NoData, "server error"),
    Rej(FALSE, 0, NoData, "") }

NoRej == Rej(FALSE, 0, NoData, "")

\* Rejections of scope.get / scope.update: no response at all, or a response
\* with a message.
AssocRejections == { NoRej, Rej(TRUE, 500, NoData, "server error") }

\* ------------------------------------------------------------------ state
VARIABLES
  location,   \* the router's path; the page is mounted on PagePath
  type,       \* useState: which dialog is open ("none" is undefined)
  operating,  \* useState(false)
  version,    \* useState(1)
  scopeId,    \* useState<ID>()
  scopeIds,   \* useState<ID[]>([])
  conflict,   \* useState<string[]>([])
  errorMsg,   \* useState('')
  tips,       \* useTips: the follow-up message
  toast,      \* the antd message raised by the latest step (NoToast: none)
  ops,        \* operations in flight: id -> record
  inbox,      \* the answer whose handler is about to resume, if any
  nRemoves,   \* delete / clear operations started so far
  nAssociates,\* associate operations started so far
  db          \* the server's data scopes: scope id -> scope object

vars ==
  << location, type, operating, version, scopeId, scopeIds, conflict,
     errorMsg, tips, toast, ops, inbox, nRemoves, nAssociates, db >>

Mounted == location = PagePath

\* The modal rendered by `{type === '...' && <Modal open ...>}`.
Dialog == IF Mounted THEN type ELSE "none"

\* A state setter called from a handler that resumes after an await: React
\* drops the update once the component is unmounted.
SetState(cur, new) == IF Mounted THEN new ELSE cur

\* The scope object the server holds for scope id s at page load.
InitScope(s) == [id |-> s, name |-> 10 + s, scopeConfigId |-> <<3>>]

NoScopeObj == [id |-> 0, name |-> 0, scopeConfigId |-> Null]

NoChains == [s \in {} |-> 0]

RemoveConnectionOp ==
  [kind |-> "removeConnection", scopeId |-> NoScope, onlyData |-> FALSE,
   trId |-> NoneId, chains |-> NoChains, settled |-> FALSE]

ScopeRemoveOp(sid, onlyData) ==
  [kind |-> "scopeRemove", scopeId |-> sid, onlyData |-> onlyData,
   trId |-> NoneId, chains |-> NoChains, settled |-> FALSE]

\* An answer to removeConnection or scope.remove: of operation i, resolved
\* (ok) or rejected with rej.
Answer(i, ok, rej) == [i |-> i, ok |-> ok, rej |-> rej]
NoAnswer == Answer(0, FALSE, NoRej)

\* One async mapper of `scopeIds.map(...)`: its scope.get is in flight.
GetChain == [st |-> "get", fetched |-> NoScopeObj, body |-> NoScopeObj]

AssociateOp(targets, trId) ==
  [kind |-> "associate", scopeId |-> NoScope, onlyData |-> FALSE,
   trId |-> trId,
   chains |-> [s \in targets |-> GetChain], settled |-> FALSE]

\* The mapper's state once its request chain is over.
EndChain(st) == [st |-> st, fetched |-> NoScopeObj, body |-> NoScopeObj]

Init ==
  /\ location = PagePath
  /\ type = "none"
  /\ operating = FALSE
  /\ version = InitVersion
  /\ scopeId = NoScope
  /\ scopeIds = {}
  /\ conflict = <<>>
  /\ errorMsg = ""
  /\ tips = ""
  /\ toast = NoToast
  /\ ops = [i \in {} |-> RemoveConnectionOp]
  /\ inbox = NoAnswer
  /\ nRemoves = 0
  /\ nAssociates = 0
  /\ db = [s \in ScopeIdSet |-> InitScope(s)]


\* --------------------------------------------------- the wrapped requests
\* What a wrapped request hands to `operator`: the value it returned, or
\* the fact that it threw (`res` then stands for the thrown error object,
\* which has no status).
Returned(status, cf, m) ==
  [thrown |-> FALSE, res |-> [status |-> status, conflict |-> cf, message |-> m]]
Threw ==
  [thrown |-> TRUE, res |-> [status |-> "undefined", conflict |-> <<>>, message |-> ""]]

\* Mutant of StatusOf: any HTTP status counts as a conflict.
StatusOf_AnyStatus(status) == IF status # 0 THEN "conflict" ELSE "error"

\* `status === 409 ? 'conflict' : 'error'`
StatusOf(status) == IF status = Conflict409 THEN "conflict" ELSE "error"

\* Mutant of ConflictOf: blueprints are listed before projects.
ConflictOf_BlueprintsFirst(data) ==
  IF data.kind # "none" THEN data.blueprints \o data.projects ELSE <<>>

\* `data ? [...data.projects, ...data.blueprints] : []`; spreading a missing
\* list throws, which the caller sees as Threw.
ConflictOf(data) ==
  IF data.kind # "none" THEN data.projects \o data.blueprints ELSE <<>>

\* handleDelete's request: dispatch(removeConnection(...)).unwrap() inside
\* try/catch.
DeleteRequest(a) ==
  IF a.ok THEN Returned("success", <<>>, "")
  ELSE IF a.rej.data.kind = "bad" THEN Threw
  ELSE Returned(StatusOf(a.rej.status), ConflictOf(a.rej.data), a.rej.message)

\* handleDeleteDataScope's request: API.scope.remove(...) inside try/catch;
\* `const { status, data } = err.response` throws when there is no response.
DeleteDataScopeRequest(a) ==
  IF a.ok THEN Returned("success", <<>>, "")
  ELSE IF ~a.rej.response \/ a.rej.data.kind = "bad" THEN Threw
  ELSE Returned(StatusOf(a.rej.status), ConflictOf(a.rej.data), a.rej.message)

\* operator(request, config): [success, result]; a request that threw gives
\* [false, err].
OperatorResult(r) == [success |-> ~r.thrown, res |-> r.res]

\* operator's failure toast when hideToast is not set:
\* formatReason?.(err) ?? err.response?.data?.message ?? 'Operation failed.'
OperatorReason(rej) == IF rej.response THEN rej.message ELSE MsgFailed

\* ------------------------------------------------------------ user actions
\* An answer is handled before any other event: the handler awaiting it
\* resumes in the same turn of the event loop.
Idle == inbox = NoAnswer

\* Controls of the page are reachable only while no modal covers it.
handleHideDialog ==
  /\ Idle
  /\ Mounted
  /\ type # "none"
  /\ type' = "none"
  /\ toast' = NoToast
  /\ UNCHANGED << location, operating, version, scopeId, scopeIds,
                  conflict, errorMsg, tips, ops, inbox, nRemoves,
                  nAssociates, db >>

handleShowDeleteDialog ==
  /\ Idle
  /\ Mounted
  /\ type = "none"
  /\ type' = "deleteConnection"
  /\ toast' = NoToast
  /\ UNCHANGED << location, operating, version, scopeId, scopeIds,
                  conflict, errorMsg, tips, ops, inbox, nRemoves,
                  nAssociates, db >>

handleShowClearDataScopeDialog(sid) ==
  /\ Idle
  /\ Mounted
  /\ type = "none"
  /\ type' = "clearDataScope"
  /\ scopeId' = sid
  /\ toast' = NoToast
  /\ UNCHANGED << location, operating, version, scopeIds, conflict,
                  errorMsg, tips, ops, inbox, nRemoves, nAssociates, db >>

handleShowDeleteDataScopeDialog(sid) ==
  /\ Idle
  /\ Mounted
  /\ type = "none"
  /\ type' = "deleteDataScope"
  /\ scopeId' = sid
  /\ toast' = NoToast
  /\ UNCHANGED << location, operating, version, scopeIds, conflict,
                  errorMsg, tips, ops, inbox, nRemoves, nAssociates, db >>

\* rowSelection.onChange
SelectRows(keys) ==
  /\ Idle
  /\ Mounted
  /\ type = "none"
  /\ keys # scopeIds
  /\ scopeIds' = keys
  /\ toast' = NoToast
  /\ UNCHANGED << location, type, operating, version, scopeId, conflict,
                  errorMsg, tips, ops, inbox, nRemoves, nAssociates, db >>

\* The "Associate Scope Config" button (disabled while nothing is selected)
\* passes the selection; a row's link button passes [id].
handleShowScopeConfigSelectDialog(ids) ==
  /\ Idle
  /\ Mounted
  /\ type = "none"
  /\ type' = "associateScopeConfig"
  /\ scopeIds' = ids
  /\ toast' = NoToast
  /\ UNCHANGED << location, operating, version, scopeId, conflict,
                  errorMsg, tips, ops, inbox, nRemoves, nAssociates, db >>

ClickAssociateButton ==
  /\ scopeIds # {}
  /\ handleShowScopeConfigSelectDialog(scopeIds)

ClickRowLink(sid) == handleShowScopeConfigSelectDialog({sid})


\* ------------------------------------------------------------- operations
Outstanding(i) == i \in DOMAIN ops
Finish(i) == [j \in DOMAIN ops \ {i} |-> ops[j]]
NextOp == nRemoves + nAssociates + 1
Start(o) == [j \in DOMAIN ops \cup {NextOp} |-> IF j = NextOp THEN o ELSE ops[j]]

\* Confirm of the deleteConnection modal (okButtonProps.loading blocks the
\* click while operating): handleDelete up to its await; operator calls
\* setOperating(true) and the request goes out.
handleDelete ==
  /\ Idle
  /\ Mounted
  /\ type = "deleteConnection"
  /\ ~operating
  /\ nRemoves < MaxRemoves
  /\ operating' = TRUE
  /\ ops' = Start(RemoveConnectionOp)
  /\ nRemoves' = nRemoves + 1
  /\ toast' = NoToast
  /\ UNCHANGED << location, type, version, scopeId, scopeIds, conflict,
                  errorMsg, tips, inbox, nAssociates, db >>

\* Confirm of the clearDataScope (onlyData) or deleteDataScope modal:
\* handleDeleteDataScope up to its await.
handleDeleteDataScope(onlyData) ==
  /\ Idle
  /\ Mounted
  /\ type = (IF onlyData THEN "clearDataScope" ELSE "deleteDataScope")
  /\ ~operating
  /\ nRemoves < MaxRemoves
  /\ IF scopeId = NoScope
       THEN /\ toast' = NoToast
            /\ UNCHANGED << location, type, operating, version, scopeId,
                            scopeIds, conflict, errorMsg, tips, ops, inbox,
                            nRemoves, nAssociates, db >>
       ELSE /\ operating' = TRUE
            /\ ops' = Start(ScopeRemoveOp(scopeId, onlyData))
            /\ nRemoves' = nRemoves + 1
            /\ toast' = NoToast
            /\ UNCHANGED << location, type, version, scopeId, scopeIds,
                            conflict, errorMsg, tips, inbox, nAssociates,
                            db >>

\* The answer to a removeConnection or scope.remove request arrives; the
\* handler that awaits it resumes before any other event is processed.
Resolve(i) ==
  /\ Idle
  /\ Outstanding(i)
  /\ ops[i].kind \in {"removeConnection", "scopeRemove"}
  /\ inbox' = Answer(i, TRUE, NoRej)
  /\ toast' = NoToast
  /\ UNCHANGED << location, type, operating, version, scopeId, scopeIds,
                  conflict, errorMsg, tips, ops, nRemoves, nAssociates, db >>

Reject(i, rej) ==
  /\ Idle
  /\ Outstanding(i)
  /\ ops[i].kind \in {"removeConnection", "scopeRemove"}
  /\ inbox' = Answer(i, FALSE, rej)
  /\ toast' = NoToast
  /\ UNCHANGED << location, type, operating, version, scopeId, scopeIds,
                  conflict, errorMsg, tips, ops, nRemoves, nAssociates, db >>

\* Mutant of handleDeleteOutcome: success refreshes and closes the dialog,
\* as the data-scope handler does, instead of navigating away.
handleDeleteOutcome_NoNavigate(res) ==
  IF res.status = "success"
    THEN /\ toast' = MsgDeleteConnection
         /\ type' = SetState(type, "none")
         /\ UNCHANGED << location, conflict, errorMsg >>
    ELSE IF res.status = "conflict"
      THEN /\ type' = SetState(type, "deleteConnectionFailed")
           /\ conflict' = SetState(conflict, res.conflict)
           /\ errorMsg' = SetState(errorMsg, res.message)
           /\ toast' = NoToast
           /\ UNCHANGED << location >>
      ELSE /\ toast' = MsgFailed
           /\ type' = SetState(type, "none")
           /\ UNCHANGED << conflict, errorMsg, location >>

\* Mutant of handleDeleteOutcome: the conflict branch opens the failed
\* dialog without storing the conflict list and the message.
handleDeleteOutcome_StaleConflict(res) ==
  IF res.status = "success"
    THEN /\ toast' = MsgDeleteConnection
         /\ location' = ListPath
         /\ UNCHANGED << type, conflict, errorMsg >>
    ELSE IF res.status = "conflict"
      THEN /\ type' = SetState(type, "deleteConnectionFailed")
           /\ toast' = NoToast
           /\ UNCHANGED << conflict, errorMsg, location >>
      ELSE /\ toast' = MsgFailed
           /\ type' = SetState(type, "none")
           /\ UNCHANGED << conflict, errorMsg, location >>

\* handleDelete after `await operator(...)`.
handleDeleteOutcome(res) ==
  IF res.status = "success"
    THEN /\ toast' = MsgDeleteConnection
         /\ location' = ListPath
         /\ UNCHANGED << type, conflict, errorMsg >>
    ELSE IF res.status = "conflict"
      THEN /\ type' = SetState(type, "deleteConnectionFailed")
           /\ conflict' = SetState(conflict, res.conflict)
           /\ errorMsg' = SetState(errorMsg, res.message)
           /\ toast' = NoToast
           /\ UNCHANGED << location >>
      ELSE /\ toast' = MsgFailed
           /\ type' = SetState(type, "none")
           /\ UNCHANGED << conflict, errorMsg, location >>

\* removeConnection has been answered: operator's finally runs
\* setOperating(false) and handleDelete resumes.
handleDeleteResume(i) ==
  /\ Outstanding(i)
  /\ ops[i].kind = "removeConnection"
  /\ inbox.i = i
  /\ operating' = SetState(operating, FALSE)
  /\ handleDeleteOutcome(OperatorResult(DeleteRequest(inbox)).res)
  /\ ops' = Finish(i)
  /\ inbox' = NoAnswer
  /\ UNCHANGED << version, scopeId, scopeIds, tips, nRemoves, nAssociates, db >>

\* Mutant of handleDeleteDataScopeOutcome: one success message for both
\* clear and delete.
handleDeleteDataScopeOutcome_OneMessage(res, onlyData) ==
  IF res.status = "success"
    THEN /\ version' = SetState(version, version + 1)
         /\ toast' = MsgDeleteScope
         /\ type' = SetState(type, "none")
         /\ UNCHANGED << conflict, errorMsg >>
    ELSE IF res.status = "conflict"
      THEN /\ type' = SetState(type, "deleteDataScopeFailed")
           /\ conflict' = SetState(conflict, res.conflict)
           /\ errorMsg' = SetState(errorMsg, res.message)
           /\ toast' = NoToast
           /\ UNCHANGED << version >>
      ELSE /\ toast' = MsgFailed
           /\ type' = SetState(type, "none")
           /\ UNCHANGED << conflict, errorMsg, version >>

\* Mutant of handleDeleteDataScopeOutcome: the outcome is applied only
\* while the dialog that started the request is still the open one.
handleDeleteDataScopeOutcome_Guarded(res, onlyData) ==
  LET own == type \in { "clearDataScope", "deleteDataScope" }
  IN  IF res.status = "success"
        THEN /\ version' = SetState(version, version + 1)
             /\ toast' = (IF onlyData THEN MsgClear ELSE MsgDeleteScope)
             /\ type' = (IF own THEN SetState(type, "none") ELSE type)
             /\ UNCHANGED << conflict, errorMsg >>
        ELSE IF res.status = "conflict"
          THEN /\ type' = (IF own THEN SetState(type, "deleteDataScopeFailed") ELSE type)
               /\ conflict' = SetState(conflict, res.conflict)
               /\ errorMsg' = SetState(errorMsg, res.message)
               /\ toast' = NoToast
               /\ UNCHANGED << version >>
          ELSE /\ toast' = MsgFailed
               /\ type' = (IF own THEN SetState(type, "none") ELSE type)
               /\ UNCHANGED << conflict, errorMsg, version >>

\* handleDeleteDataScope after `await operator(...)`.
handleDeleteDataScopeOutcome(res, onlyData) ==
  IF res.status = "success"
    THEN /\ version' = SetState(version, version + 1)
         /\ toast' = (IF onlyData THEN MsgClear ELSE MsgDeleteScope)
         /\ type' = SetState(type, "none")
         /\ UNCHANGED << conflict, errorMsg >>
    ELSE IF res.status = "conflict"
      THEN /\ type' = SetState(type, "deleteDataScopeFailed")
           /\ conflict' = SetState(conflict, res.conflict)
           /\ errorMsg' = SetState(errorMsg, res.message)
           /\ toast' = NoToast
           /\ UNCHANGED << version >>
      ELSE /\ toast' = MsgFailed
           /\ type' = SetState(type, "none")
           /\ UNCHANGED << conflict, errorMsg, version >>

handleDeleteDataScopeResume(i) ==
  /\ Outstanding(i)
  /\ ops[i].kind = "scopeRemove"
  /\ inbox.i = i
  /\ operating' = SetState(operating, FALSE)
  /\ handleDeleteDataScopeOutcome(
       OperatorResult(DeleteDataScopeRequest(inbox)).res, ops[i].onlyData)
  /\ ops' = Finish(i)
  /\ inbox' = NoAnswer
  /\ UNCHANGED << location, scopeId, scopeIds, tips, nRemoves, nAssociates, db >>


\* Submit of the scope-config form in the associateScopeConfig modal:
\* handleAssociateScopeConfig up to its await.  operator calls
\* setOperating(true); every mapper of scopeIds.map issues its scope.get.
\* (The dialog is only ever opened with a non-empty scopeIds.)
handleAssociateScopeConfig(trId) ==
  /\ Idle
  /\ Mounted
  /\ type = "associateScopeConfig"
  /\ scopeIds # {}
  /\ nAssociates < MaxAssociates
  /\ operating' = TRUE
  /\ ops' = Start(AssociateOp(scopeIds, trId))
  /\ nAssociates' = nAssociates + 1
  /\ toast' = NoToast
  /\ UNCHANGED << location, type, version, scopeId, scopeIds, conflict,
                  errorMsg, tips, inbox, nRemoves, db >>

ChainOver(c) == c.st \in {"done", "failed"}

\* The operation leaves `ops` once Promise.all has settled and every mapper
\* has run to its end.
Keep(i, o) ==
  IF \A s \in DOMAIN o.chains : ChainOver(o.chains[s])
    THEN Finish(i)
    ELSE [ops EXCEPT ![i] = o]

\* Mutant of AssociateSucceeded: the dialog is left open.
AssociateSucceeded_KeepsDialog ==
  /\ operating' = SetState(operating, FALSE)
  /\ toast' = MsgAssociate
  /\ version' = SetState(version, version + 1)
  /\ tips' = TipsAssociate
  /\ UNCHANGED type

\* Promise.all resolved: operator shows the success toast and runs
\* setOperating(false); handleAssociateScopeConfig resumes with success.
AssociateSucceeded ==
  /\ operating' = SetState(operating, FALSE)
  /\ toast' = MsgAssociate
  /\ version' = SetState(version, version + 1)
  /\ tips' = TipsAssociate
  /\ type' = SetState(type, "none")

\* Mutant of AssociateFailed: a failed association closes the dialog, as
\* the delete handlers do on a generic failure.
AssociateFailed_ClosesDialog(rej) ==
  /\ operating' = SetState(operating, FALSE)
  /\ toast' = OperatorReason(rej)
  /\ type' = SetState(type, "none")
  /\ UNCHANGED << version, tips >>

\* Promise.all rejected: operator shows the reason and runs
\* setOperating(false); handleAssociateScopeConfig resumes with success
\* false and does nothing.
AssociateFailed(rej) ==
  /\ operating' = SetState(operating, FALSE)
  /\ toast' = OperatorReason(rej)
  /\ UNCHANGED << version, tips, type >>

\* scope.get of one mapper returns the scope; the mapper issues scope.update
\* with the fetched object and the new scopeConfigId.
GetReturns(i, s) ==
  /\ Idle
  /\ Outstanding(i)
  /\ ops[i].kind = "associate"
  /\ s \in DOMAIN ops[i].chains
  /\ ops[i].chains[s].st = "get"
  /\ ops' = [ops EXCEPT ![i].chains[s] =
               [st |-> "update", fetched |-> db[s],
                body |-> AssociateBody(db[s], ops[i].trId)]]
  /\ toast' = NoToast
  /\ UNCHANGED << location, type, operating, version, scopeId, scopeIds,
                  conflict, errorMsg, tips, inbox, nRemoves, nAssociates,
                  db >>

\* A request of one mapper is rejected: the mapper ends, and Promise.all
\* rejects unless it has settled already.
MapperFails(i, s, rej) ==
  LET o == [ops[i] EXCEPT !.chains[s] = EndChain("failed"), !.settled = TRUE]
  IN  /\ IF ops[i].settled
           THEN /\ toast' = NoToast
                /\ UNCHANGED << operating, version, tips, type >>
           ELSE AssociateFailed(rej)
      /\ ops' = Keep(i, o)
      /\ UNCHANGED << location, scopeId, scopeIds, conflict, errorMsg,
                      inbox, nRemoves, nAssociates, db >>

GetFails(i, s, rej) ==
  /\ Idle
  /\ Outstanding(i)
  /\ ops[i].kind = "associate"
  /\ s \in DOMAIN ops[i].chains
  /\ ops[i].chains[s].st = "get"
  /\ MapperFails(i, s, rej)

UpdateFails(i, s, rej) ==
  /\ Idle
  /\ Outstanding(i)
  /\ ops[i].kind = "associate"
  /\ s \in DOMAIN ops[i].chains
  /\ ops[i].chains[s].st = "update"
  /\ MapperFails(i, s, rej)

\* scope.update of one mapper succeeds: the server stores the body; when it
\* was the last mapper and none failed, Promise.all resolves.
UpdateReturns(i, s) ==
  /\ Idle
  /\ Outstanding(i)
  /\ ops[i].kind = "associate"
  /\ s \in DOMAIN ops[i].chains
  /\ ops[i].chains[s].st = "update"
  /\ db' = [db EXCEPT ![s] = ops[i].chains[s].body]
  /\ LET all == \A r \in DOMAIN ops[i].chains \ {s} : ops[i].chains[r].st = "done"
         o == [ops[i] EXCEPT !.chains[s] = EndChain("done"),
                             !.settled = @ \/ all]
     IN  /\ IF all
              THEN AssociateSucceeded
              ELSE /\ toast' = NoToast
                   /\ UNCHANGED << operating, version, tips, type >>
         /\ ops' = Keep(i, o)
  /\ UNCHANGED << location, scopeId, scopeIds, conflict, errorMsg, inbox,
                  nRemoves, nAssociates >>

\* ---------------------------------------------------------- specification
OpIds == 1 .. (MaxRemoves + MaxAssociates)

Next ==
  \/ handleHideDialog
  \/ handleShowDeleteDialog
  \/ \E sid \in ScopeIdSet : handleShowClearDataScopeDialog(sid)
  \/ \E sid \in ScopeIdSet : handleShowDeleteDataScopeDialog(sid)
  \/ \E keys \in SUBSET ScopeIdSet : SelectRows(keys)
  \/ ClickAssociateButton
  \/ \E sid \in ScopeIdSet : ClickRowLink(sid)
  \/ handleDelete
  \/ \E onlyData \in BOOLEAN : handleDeleteDataScope(onlyData)
  \/ \E trId \in TrIds : handleAssociateScopeConfig(trId)
  \/ \E i \in OpIds : Resolve(i)
  \/ \E i \in OpIds, rej \in Rejections : Reject(i, rej)
  \/ \E i \in OpIds : handleDeleteResume(i)
  \/ \E i \in OpIds : handleDeleteDataScopeResume(i)
  \/ \E i \in OpIds, s \in ScopeIdSet : GetReturns(i, s)
  \/ \E i \in OpIds, s \in ScopeIdSet, rej \in AssocRejections : GetFails(i, s, rej)
  \/ \E i \in OpIds, s \in ScopeIdSet : UpdateReturns(i, s)
  \/ \E i \in OpIds, s \in ScopeIdSet, rej \in AssocRejections : UpdateFails(i, s, rej)

Spec == Init /\ [][Next]_vars


\* ------------------------------------------------------------------ claims
\* The handler of a `kind` request is about to resume with the answer in
\* `inbox`.
Answered(kind) == inbox.i \in DOMAIN ops /\ ops[inbox.i].kind = kind

FailedDialogs == { "deleteConnectionFailed", "deleteDataScopeFailed" }

\* C1: when removeConnection succeeds, handleDelete shows the success toast
\* and navigates to /connections; that step neither bumps the refresh
\* version nor changes the dialog state, so deleteConnectionFailed is not
\* entered.
C1_DeleteSuccessNavigates ==
  [][ (Answered("removeConnection") /\ inbox.ok)
        => /\ toast' = MsgDeleteConnection
           /\ location' = ListPath
           /\ version' = version
           /\ type' = type
           /\ Dialog' # "deleteConnectionFailed" ]_vars

\* The connection was deleted from its confirmation dialog: the page has
\* navigated to the list and the success toast is up.
C1_Witness ==
  /\ location = ListPath
  /\ toast = MsgDeleteConnection
  /\ type = "deleteConnection"
  /\ version = InitVersion

\* C2: when removeConnection is rejected with status 409 and a payload
\* {projects, blueprints}, the dialog becomes deleteConnectionFailed, the
\* conflict list is the payload's projects followed by its blueprints, and
\* the error message is the rejection's message.
C2_ConflictListFromPayload ==
  [][ ( /\ Answered("removeConnection")
        /\ ~inbox.ok
        /\ inbox.rej.status = Conflict409
        /\ inbox.rej.data.kind = "ok"
        /\ Mounted )
        => /\ type' = "deleteConnectionFailed"
           /\ Len(conflict') = Len(inbox.rej.data.projects) + Len(inbox.rej.data.blueprints)
           /\ SubSeq(conflict', 1, Len(inbox.rej.data.projects)) = inbox.rej.data.projects
           /\ SubSeq(conflict', Len(inbox.rej.data.projects) + 1, Len(conflict'))
                = inbox.rej.data.blueprints
           /\ errorMsg' = inbox.rej.message ]_vars

\* The failed dialog of a connection in use by project P1 and blueprint B1.
C2_Witness ==
  /\ Dialog = "deleteConnectionFailed"
  /\ conflict = <<"P1", "B1">>
  /\ errorMsg = "in use"


DataScopeDialogs == { "clearDataScope", "deleteDataScope" }

\* C5: confirming the clearDataScope / deleteDataScope dialog issues exactly
\* one scope.remove call, with the scope id the dialog was opened for (a
\* row's id, which stays put while the dialog is open) and onlyData true
\* for clear, false for delete; when the call succeeds the toast is the
\* clear or the delete message (two different texts) and, the page being
\* mounted, the refresh version goes up by one and the dialog closes.
C5_ClearAndDeleteDataScope ==
  [][ /\ ( /\ type \in DataScopeDialogs
           /\ \/ ~operating /\ operating'
              \/ DOMAIN ops' \ DOMAIN ops # {} )
          => \E j \in DOMAIN ops' \ DOMAIN ops :
               /\ DOMAIN ops' = DOMAIN ops \cup {j}
               /\ \A k \in DOMAIN ops : ops'[k] = ops[k]
               /\ ops'[j].kind = "scopeRemove"
               /\ ops'[j].scopeId = scopeId
               /\ ops'[j].onlyData = (type = "clearDataScope")
      /\ (type' \in DataScopeDialogs /\ type' # type) => scopeId' \in ScopeIdSet
      /\ (type \in DataScopeDialogs /\ type' = type) => scopeId' = scopeId
      /\ (Answered("scopeRemove") /\ inbox.ok)
          => /\ toast' = (IF ops[inbox.i].onlyData THEN MsgClear ELSE MsgDeleteScope)
             /\ MsgClear # MsgDeleteScope
             /\ Mounted => (version' = version + 1 /\ type' = "none") ]_vars

\* A clear of scope 2 has succeeded as the first operation of the page.
C5_Witness ==
  /\ Mounted
  /\ toast = MsgClear
  /\ type = "none"
  /\ scopeId = 2
  /\ version = InitVersion + 1
  /\ nRemoves = 1

\* The operation whose 409 a *Failed dialog reports.
KindOfFailed(dialog) ==
  IF dialog = "deleteConnectionFailed" THEN "removeConnection" ELSE "scopeRemove"

\* C6: the dialog enters deleteConnectionFailed / deleteDataScopeFailed only
\* in the step that handles a 409 rejection of the matching delete
\* operation; a rejection of removeConnection or scope.remove with any
\* other status, or with no response at all, ends with the generic failure
\* toast, no dialog, and the refresh version unchanged.
C6_FailedOnlyOn409 ==
  [][ /\ (type' \in FailedDialogs /\ type' # type)
          => /\ Answered(KindOfFailed(type'))
             /\ ~inbox.ok
             /\ inbox.rej.status = Conflict409
      /\ ( /\ Answered("removeConnection") \/ Answered("scopeRemove")
           /\ ~inbox.ok
           /\ inbox.rej.status # Conflict409 )
          => /\ toast' = MsgFailed
             /\ Dialog' = "none"
             /\ type' \notin FailedDialogs \/ type' = type
             /\ version' = version ]_vars

\* A delete of a data scope has failed without a 409: generic toast, dialog
\* closed, version as before.
C6_Witness ==
  /\ Mounted
  /\ toast = MsgFailed
  /\ type = "none"
  /\ version = InitVersion
  /\ nRemoves = 1
  /\ scopeId # NoScope
  /\ ops = << >>

\* C10: whenever a *Failed dialog comes up, or conflict / errorMsg change
\* under one, the step handles a 409 rejection of the matching operation
\* and the conflict list and message shown are those of that rejection; so
\* a *Failed dialog never shows what an earlier or different operation
\* left in conflict / errorMsg.
C10_FailedShowsItsOwnConflict ==
  [][ ( /\ Dialog' \in FailedDialogs
        /\ type' # type \/ conflict' # conflict \/ errorMsg' # errorMsg )
        => /\ Answered(KindOfFailed(type'))
           /\ ~inbox.ok
           /\ inbox.rej.status = Conflict409
           /\ conflict' = (IF inbox.rej.data.kind = "ok"
                             THEN inbox.rej.data.projects \o inbox.rej.data.blueprints
                             ELSE << >>)
           /\ errorMsg' = inbox.rej.message ]_vars

\* The second delete operation of the page was answered 409 without a
\* payload: its dialog shows an empty list and that answer's message.
C10_Witness ==
  /\ Dialog = "deleteDataScopeFailed"
  /\ conflict = << >>
  /\ errorMsg = "blocked"
  /\ nRemoves = 2
  /\ ops = << >>


RemoveKinds == { "removeConnection", "scopeRemove" }

\* C7: at most one removeConnection / scope.remove request is outstanding
\* at any time.
C7_AtMostOneRemoveOutstanding ==
  Cardinality({ i \in DOMAIN ops : ops[i].kind \in RemoveKinds }) <= 1

\* Promise.all of associate operation i settles in this step.
AssociateSettles(i) ==
  /\ i \in DOMAIN ops
  /\ ops[i].kind = "associate"
  /\ ~ops[i].settled
  /\ i \notin DOMAIN ops' \/ ops'[i].settled

\* The mapper of scope s in associate operation i, before and after a step.
Mapper(i, s) == ops[i].chains[s]
MapperAfter(i, s) ==
  IF i \in DOMAIN ops' THEN ops'[i].chains[s] ELSE EndChain("over")

\* C3 (amended): a submission with N target scope ids issues exactly N
\* scope.get calls, one per scope id; a mapper issues its scope.update only
\* once its own get has returned, at most once, and issues nothing after
\* its update was answered or one of its requests was rejected; the
\* success toast comes up only when every mapper has issued its update and
\* the last of them returns, and then, the page being mounted, the refresh
\* version goes up by exactly one and the dialog closes.
C3_OneGetThenOneUpdatePerScope ==
  [][ /\ nAssociates' # nAssociates
          => \E j \in DOMAIN ops' \ DOMAIN ops :
               /\ DOMAIN ops' = DOMAIN ops \cup {j}
               /\ ops'[j].kind = "associate"
               /\ DOMAIN ops'[j].chains = scopeIds
               /\ \A s \in scopeIds : ops'[j].chains[s].st = "get"
      /\ \A i \in DOMAIN ops : \A s \in DOMAIN ops[i].chains :
           /\ i \in DOMAIN ops' => DOMAIN ops'[i].chains = DOMAIN ops[i].chains
           /\ Mapper(i, s).st = "get"
                => MapperAfter(i, s).st \in {"get", "update", "failed", "over"}
           /\ Mapper(i, s).st = "update"
                => MapperAfter(i, s).st \in {"update", "done", "failed", "over"}
           /\ Mapper(i, s).st \in {"done", "failed"}
                => MapperAfter(i, s).st \in {Mapper(i, s).st, "over"}
      /\ toast' = MsgAssociate
          => \E i \in DOMAIN ops :
               /\ AssociateSettles(i)
               /\ i \notin DOMAIN ops'
               /\ \A s \in DOMAIN ops[i].chains : Mapper(i, s).st \in {"update", "done"}
               /\ Cardinality({ s \in DOMAIN ops[i].chains : Mapper(i, s).st = "update" }) = 1
               /\ Mounted => (version' = version + 1 /\ type' = "none") ]_vars

\* Both scopes were associated with scope config 12 in one operation: one
\* version bump, dialog closed.
C3_Witness ==
  /\ Mounted
  /\ toast = MsgAssociate
  /\ scopeIds = {1, 2}
  /\ db[1].scopeConfigId = <<12>>
  /\ db[2].scopeConfigId = <<12>>
  /\ version = InitVersion + 1
  /\ type = "none"

\* C3 as stated: every one of the N scope.get calls is followed by a
\* scope.update of the same scope, so that N updates are issued.
C3_EveryGetFollowedByUpdate ==
  [][ \A i \in DOMAIN ops : \A s \in DOMAIN ops[i].chains :
        Mapper(i, s).st = "get" => MapperAfter(i, s).st \in {"get", "update"} ]_vars

\* The scopeConfigId C4 expects for a submitted id.
C4_Expected(trId) ==
  IF trId = StrId(<<"N", "o", "n", "e">>) THEN << >>
  ELSE IF trId = StrId(<<"1", "2">>) THEN <<12>>
  ELSE <<trId.n>>

\* C4: the body of every scope.update is the scope object the server
\* returned to the scope.get of that scope id just before, with
\* scopeConfigId replaced by null for the sentinel "None" and by the
\* numeric value of the submitted id otherwise, and every other field as
\* fetched; the server stores that body.
C4_UpdateWritesBackFetchedScope ==
  [][ /\ \A i \in DOMAIN ops : \A s \in DOMAIN ops[i].chains :
           (Mapper(i, s).st = "get" /\ MapperAfter(i, s).st = "update")
             => /\ MapperAfter(i, s).fetched = db[s]
                /\ DOMAIN MapperAfter(i, s).body = DOMAIN db[s]
                /\ MapperAfter(i, s).body.id = s
                /\ \A f \in DOMAIN db[s] \ {"scopeConfigId"} :
                     MapperAfter(i, s).body[f] = db[s][f]
                /\ MapperAfter(i, s).body.scopeConfigId = C4_Expected(ops[i].trId)
      /\ \A s \in ScopeIdSet :
           db'[s] # db[s]
             => \E i \in DOMAIN ops :
                  /\ s \in DOMAIN ops[i].chains
                  /\ Mapper(i, s).st = "update"
                  /\ db'[s] = Mapper(i, s).body ]_vars

\* Scope 1 has been written back with config 12 and its name as fetched,
\* and the update of scope 2, with config 12 and its own name, is in flight.
C4_Witness ==
  /\ db[1] = [id |-> 1, name |-> 11, scopeConfigId |-> <<12>>]
  /\ \E i \in DOMAIN ops :
       /\ 2 \in DOMAIN ops[i].chains
       /\ ops[i].chains[2].st = "update"
       /\ ops[i].chains[2].body = [id |-> 2, name |-> 12, scopeConfigId |-> <<12>>]


\* Associate operation i has a mapper whose request was rejected.
HasFailedMapper(i) ==
  \E s \in DOMAIN ops[i].chains : Mapper(i, s).st = "failed"

\* C8: when a scope.get or scope.update of a bulk association is rejected
\* the operation fails as a whole (operator shows a failure reason, not the
\* success toast): that step, and every later step of the operation's
\* remaining mappers, leaves the refresh version, the dialog and the tips
\* as they are, and the failing step writes nothing back to the server, so
\* scopes already updated keep the new scopeConfigId.
C8_AssociateFailsAsAWhole ==
  [][ \A i \in DOMAIN ops :
        /\ (AssociateSettles(i) /\ toast' # MsgAssociate)
            => /\ toast' \in { OperatorReason(rej) : rej \in AssocRejections }
               /\ version' = version
               /\ type' = type
               /\ tips' = tips
               /\ db' = db
        /\ ( /\ ops[i].kind = "associate"
             /\ HasFailedMapper(i)
             /\ i \notin DOMAIN ops' \/ ops'[i] # ops[i] )
            => /\ toast' = NoToast
               /\ version' = version
               /\ type' = type
               /\ tips' = tips ]_vars

\* A bulk association of scopes 1 and 2 has just failed on scope 2 after
\* scope 1 was written: scope 1 has the new config, scope 2 the old one,
\* the dialog is still open and the version is as before.
C8_Witness ==
  /\ toast = MsgFailed
  /\ ops = << >>
  /\ nAssociates = 1
  /\ nRemoves = 0
  /\ scopeIds = {1, 2}
  /\ type = "associateScopeConfig"
  /\ version = InitVersion
  /\ db[1].scopeConfigId = <<12>>
  /\ db[2].scopeConfigId = <<3>>

\* The *Failed dialog of an operation kind.
FailedOf(kind) ==
  IF kind = "removeConnection" THEN "deleteConnectionFailed" ELSE "deleteDataScopeFailed"

\* A well-formed 409 rejection is in the inbox.
Is409 ==
  /\ ~inbox.ok
  /\ inbox.rej.response
  /\ inbox.rej.status = Conflict409
  /\ inbox.rej.data.kind # "bad"

====
